---- MODULE Spec2Model ----
(***************************************************************************)
(* Model of src/utils.py: the DataManager batch iterator (batches), its    *)
(* construction and pose conversion, and the image_pairs generator.        *)
(*                                                                         *)
(* numpy arrays are sequences; element i (0-based, as in the source) of an *)
(* array s is s[i + 1].  The height and width axes of an image carry no    *)
(* index arithmetic in the source and are left out: an image is its        *)
(* sequence of C channel values, a pose its (scalar) row value.            *)
(***************************************************************************)
EXTENDS Integers, Sequences, FiniteSets, TLC

VARIABLES
    dm,      \* the DataManager instance (NoDM before __init__ has run)
    stacks,  \* heap of stacked-image arrays: reference -> contents
    diffs,   \* heap of pose-delta arrays:    reference -> contents
    iters,   \* the generators returned by the calls of batches()
    last,    \* the most recent item yielded by any generator of batches()
    gen      \* the generator returned by image_pairs (NoGen before the call)

vars == <<dm, stacks, diffs, iters, last, gen>>

(***************************************************************************)
(* Bounds of the model.                                                    *)
(***************************************************************************)
MaxN == 4          \* frames in images.npy
MaxBatch == 2      \* batch_size
MaxSeq == 3        \* seq_len
MaxCalls == 2      \* calls of batches() on one instance
MaxPairN == 4      \* image_pairs: frames below / beyond the uint8 range
MaxPairSeq == 3    \* image_pairs: sequence_length

ChannelCounts == {1, 3}          \* C of the loaded images
PoseDims == {6, 7}               \* second dimension of poses.npy
UInt8Modulus == 256              \* np.uint8 index array of image_pairs

NoDM == [constructed |-> FALSE]
NoGen == [called |-> FALSE]
NoYield == [call |-> 0]

Min(a, b) == IF a < b THEN a ELSE b
Max(a, b) == IF a > b THEN a ELSE b
Range(s) == {s[k] : k \in 1..Len(s)}

(***************************************************************************)
(* numpy / Python primitives used by the source.                           *)
(***************************************************************************)
\* np.arange(n)
arange(n) == [k \in 1..n |-> k - 1]

\* s[start:stop] with Python's treatment of negative and out-of-range bounds
PySlice(s, start, stop) ==
    LET n == Len(s)
        lo == IF start < 0 THEN Max(start + n, 0) ELSE Min(start, n)
        hi == IF stop < 0 THEN Max(stop + n, 0) ELSE Min(stop, n)
    IN  IF hi > lo THEN SubSeq(s, lo + 1, hi) ELSE <<>>

\* s[start:]
PySliceFrom(s, start) == PySlice(s, start, Len(s))

\* arr[idxs] for an integer index array: defined when every index is in range
InRange(arr, idxs) == \A k \in 1..Len(idxs) : idxs[k] >= 0 /\ idxs[k] < Len(arr)
Take(arr, idxs) == [k \in 1..Len(idxs) |-> arr[idxs[k] + 1]]

\* a - b on the first axis under numpy broadcasting
Broadcastable(la, lb) == la = lb \/ la = 1 \/ lb = 1
BroadcastLen(la, lb) == IF la = lb THEN la ELSE IF la = 1 THEN lb ELSE la
Subtract(a, b) ==
    [k \in 1..BroadcastLen(Len(a), Len(b)) |->
        a[IF Len(a) = 1 THEN 1 ELSE k] - b[IF Len(b) = 1 THEN 1 ELSE k]]

(***************************************************************************)
(* Inputs: the arrays np.load returns.                                     *)
(***************************************************************************)
\* one image with content v: its C channel values
MkFrame(v, C) == [ch \in 1..C |-> 10 * v + ch]

\* images.npy: n pairwise distinct frames of C channels
ImageInputs(n) ==
    {[C |-> C, frames |-> [i \in 1..n |-> MkFrame(i, C)]] : C \in ChannelCounts}

\* poses.npy: m rows of dimension P
PoseInputs(m) ==
    {[P |-> P, rows |-> [i \in 1..m |-> i * i + i]] : P \in PoseDims}

\* row counts of poses.npy tried against n frames: one row short, or matching
PoseCounts(n) == {m \in {n - 1, n} : m >= 0}

(***************************************************************************)
(* DataManager.__init__                                                    *)
(***************************************************************************)
StackRef == <<0, 0>>     \* the array np.zeros returns in __init__

Zeros(rows, cols) == [e \in 1..rows |-> [c \in 1..cols |-> 0]]

NewDataManager(images, poses, batch_size, seq_len) ==
    [constructed       |-> TRUE,
     poses             |-> poses,
     images            |-> images.frames,
     seq_len           |-> seq_len,
     batch_size        |-> batch_size,
     add_frames        |-> seq_len - 1,
     N                 |-> Len(images.frames),
     C                 |-> images.C,
     image_indices     |-> arange(batch_size + (seq_len - 1)),
     image_stack_batch |-> StackRef]

(***************************************************************************)
(* DataManager.batches: one resumption of the generator (one next()).      *)
(***************************************************************************)
\* mutant of RangeStep: the offset advances by batch_size alone
RangeStep_BatchSize(self) == self.batch_size

\* step of range(0, self.N, len(self.image_indices))
RangeStep(self) == Len(self.image_indices)

\* the range is exhausted, or the TODO guard breaks out of the loop
LoopEnds(self, batch_idx) ==
    \/ batch_idx >= self.N
    \/ batch_idx + Len(self.image_indices) > self.N

\* image_indices_global = self.image_indices + batch_idx
GlobalIndices(self, batch_idx) ==
    [k \in 1..Len(self.image_indices) |-> self.image_indices[k] + batch_idx]

\* the two index arrays of the pose difference
PoseLastIndices(self, g) == PySliceFrom(g, self.add_frames)
PoseFirstIndices(self, g) == PySlice(g, 0, -self.add_frames)

\* diff_poses = self.poses[g[add_frames:]] - self.poses[g[:-add_frames]]
DiffPoses(self, g) ==
    LET ia == PoseLastIndices(self, g)
        ib == PoseFirstIndices(self, g)
        rows == self.poses.rows
    IN  IF ~(InRange(rows, ia) /\ InRange(rows, ib))
        THEN [err |-> "IndexError"]
        ELSE IF ~Broadcastable(Len(ia), Len(ib))
        THEN [err |-> "ValueError"]
        ELSE [err |-> "", val |-> Subtract(Take(rows, ia), Take(rows, ib))]

\* mutant of ImageSlice: the frames are stacked newest first
ImageSlice_NewestFirst(self, g, idx) ==
    LET i == self.seq_len - 1 - idx
    IN  IF i = self.seq_len - 1
        THEN PySliceFrom(g, i)
        ELSE PySlice(g, i, -(self.add_frames - i))

\* the frames written to channel block idx
ImageSlice(self, g, idx) ==
    IF idx = self.seq_len - 1
    THEN PySliceFrom(g, idx)
    ELSE PySlice(g, idx, -(self.add_frames - idx))

\* mutant of StoreBlock: buf[..., begin:end] += rows
StoreBlock_Accumulate(buf, begin, end, rows) ==
    LET width == IF Len(buf) = 0 THEN 0 ELSE Len(buf[1])
        lo == Min(begin, width)
        hi == Min(end, width)
        w == Max(hi - lo, 0)
        k == Len(rows)
        c == IF k = 0 THEN w ELSE Len(rows[1])
    IN  IF ~((k = Len(buf) \/ k = 1) /\ (c = w \/ c = 1))
        THEN [err |-> "ValueError", buf |-> buf]
        ELSE [err |-> "",
              buf |-> [e \in 1..Len(buf) |->
                        [ch \in 1..width |->
                            IF ch > lo /\ ch <= hi
                            THEN buf[e][ch] + rows[IF k = 1 THEN 1 ELSE e]
                                                  [IF c = 1 THEN 1 ELSE ch - lo]
                            ELSE buf[e][ch]]]]

\* buf[..., begin:end] = rows, with numpy's broadcasting of rows
StoreBlock(buf, begin, end, rows) ==
    LET width == IF Len(buf) = 0 THEN 0 ELSE Len(buf[1])
        lo == Min(begin, width)
        hi == Min(end, width)
        w == Max(hi - lo, 0)
        k == Len(rows)
        c == IF k = 0 THEN w ELSE Len(rows[1])
    IN  IF ~((k = Len(buf) \/ k = 1) /\ (c = w \/ c = 1))
        THEN [err |-> "ValueError", buf |-> buf]
        ELSE [err |-> "",
              buf |-> [e \in 1..Len(buf) |->
                        [ch \in 1..width |->
                            IF ch > lo /\ ch <= hi
                            THEN rows[IF k = 1 THEN 1 ELSE e]
                                     [IF c = 1 THEN 1 ELSE ch - lo]
                            ELSE buf[e][ch]]]]

\* for idx in range(idx, self.seq_len): fill channel block idx of the buffer
RECURSIVE FillStack(_, _, _, _)
FillStack(self, g, buf, idx) ==
    IF idx >= self.seq_len
    THEN [err |-> "", buf |-> buf]
    ELSE LET sel == ImageSlice(self, g, idx)
         IN  IF ~InRange(self.images, sel)
             THEN [err |-> "IndexError", buf |-> buf]
             ELSE LET r == StoreBlock(buf, self.C * idx, self.C * (idx + 1),
                                      Take(self.images, sel))
                  IN  IF r.err # "" THEN r ELSE FillStack(self, g, r.buf, idx + 1)

\* indices of self.images and of self.poses one loop body reads
FrameReads(self, g) ==
    UNION {Range(ImageSlice(self, g, idx)) : idx \in 0..(self.seq_len - 1)}
PoseReads(self, g) ==
    Range(PoseLastIndices(self, g)) \cup Range(PoseFirstIndices(self, g))

\* the generator object a call of batches() returns: no code has run yet
NewGenerator ==
    [status |-> "created", batch_idx |-> 0, err |-> "", hist |-> <<>>, seen |-> {}]

\* mutant of YieldedStackRef: a copy of the buffer is yielded
YieldedStackRef_Copy(selfRef, freshRef) == freshRef

\* the array object handed out by "yield self.image_stack_batch, diff_poses"
YieldedStackRef(selfRef, freshRef) == selfRef

\* the array object the subtraction of line 157 allocates
NewDiffRef(c, j) == <<c, j>>

Live(c) == c \in 1..Len(iters) /\ iters[c].status \in {"created", "suspended"}

(***************************************************************************)
(* posesFromQuaternionToRPY of the module conversions, which utils.py      *)
(* imports: it maps every quaternion pose (7 values) to a roll-pitch-yaw   *)
(* pose (6 values).  The caller converts quaternion poses only.            *)
(***************************************************************************)
poseContainsQuaternion(self) == self.poses.P = 7

posesFromQuaternionToRPY(poses) ==
    [P |-> 6, rows |-> [i \in 1..Len(poses.rows) |-> 3 * poses.rows[i] + 1]]

(***************************************************************************)
(* Actions of the DataManager                                              *)
(***************************************************************************)
Init ==
    /\ dm = NoDM
    /\ stacks = <<>>
    /\ diffs = <<>>
    /\ iters = <<>>
    /\ last = NoYield
    /\ gen = NoGen

DataManagerInit ==
    /\ ~dm.constructed
    /\ \E n \in 0..MaxN, batch_size \in 1..MaxBatch, seq_len \in 1..MaxSeq :
         \E images \in ImageInputs(n), m \in PoseCounts(n) :
           \E poses \in PoseInputs(m) :
             /\ dm' = NewDataManager(images, poses, batch_size, seq_len)
             /\ stacks' = (StackRef :> Zeros(batch_size, images.C * seq_len))
    /\ UNCHANGED <<diffs, iters, last, gen>>

convertPosesToRPY ==
    /\ dm.constructed
    /\ poseContainsQuaternion(dm)
    /\ dm' = [dm EXCEPT !.poses = posesFromQuaternionToRPY(dm.poses)]
    /\ UNCHANGED <<stacks, diffs, iters, last, gen>>

batches ==
    /\ dm.constructed
    /\ Len(iters) < MaxCalls
    /\ iters' = Append(iters, NewGenerator)
    /\ UNCHANGED <<dm, stacks, diffs, last, gen>>

\* next(): the loop ends, the generator returns
BatchesStop(c) ==
    /\ Live(c)
    /\ LoopEnds(dm, iters[c].batch_idx)
    /\ iters' = [iters EXCEPT ![c].status = "done"]
    /\ UNCHANGED <<dm, stacks, diffs, last, gen>>

\* next(): the loop body raises
BatchesRaise(c) ==
    /\ Live(c)
    /\ ~LoopEnds(dm, iters[c].batch_idx)
    /\ LET g == GlobalIndices(dm, iters[c].batch_idx)
           d == DiffPoses(dm, g)
           f == FillStack(dm, g, stacks[dm.image_stack_batch], 0)
       IN  /\ d.err # "" \/ f.err # ""
           /\ iters' = [iters EXCEPT ![c].status = "raised",
                                     ![c].err = IF d.err # "" THEN d.err ELSE f.err,
                                     ![c].seen = @ \cup {dm.poses}]
           /\ stacks' = IF d.err # "" THEN stacks
                        ELSE [stacks EXCEPT ![dm.image_stack_batch] = f.buf]
    /\ UNCHANGED <<dm, diffs, last, gen>>

\* next(): the loop body runs to the yield
BatchesYield(c) ==
    /\ Live(c)
    /\ ~LoopEnds(dm, iters[c].batch_idx)
    /\ LET b == iters[c].batch_idx
           g == GlobalIndices(dm, b)
           d == DiffPoses(dm, g)
           f == FillStack(dm, g, stacks[dm.image_stack_batch], 0)
           j == Len(iters[c].hist) + 1
           ref == YieldedStackRef(dm.image_stack_batch, <<c, j>>)
           dref == NewDiffRef(c, j)
       IN  /\ d.err = "" /\ f.err = ""
           /\ LET item == [call |-> c, b |-> b, stack |-> ref, diff |-> dref,
                           stackAtYield |-> f.buf, diffAtYield |-> d.val,
                           frameReads |-> FrameReads(dm, g),
                           poseReads |-> PoseReads(dm, g)]
              IN  /\ iters' = [iters EXCEPT ![c].status = "suspended",
                                            ![c].batch_idx = b + RangeStep(dm),
                                            ![c].hist = Append(@, item),
                                            ![c].seen = @ \cup {dm.poses}]
                  /\ last' = item
           /\ stacks' = [r \in DOMAIN stacks \cup {ref} |->
                            IF r \in {dm.image_stack_batch, ref}
                            THEN f.buf ELSE stacks[r]]
           /\ diffs' = (dref :> d.val) @@ diffs
    /\ UNCHANGED <<dm, gen>>

Next ==
    \/ DataManagerInit
    \/ convertPosesToRPY
    \/ batches
    \/ \E c \in 1..MaxCalls : BatchesStop(c)
    \/ \E c \in 1..MaxCalls : BatchesRaise(c)
    \/ \E c \in 1..MaxCalls : BatchesYield(c)

Spec == Init /\ [][Next]_vars

(***************************************************************************)
(* image_pairs(image_sequence, sequence_length)                            *)
(*                                                                         *)
(* The frames have the 3 channels the docstring states; a frame is its     *)
(* content value and a 6-channel element of ret the pair <<first 3         *)
(* channels, last 3 channels>>.                                            *)
(***************************************************************************)
\* image_sequence of n frames: content repeats with period p below index K
\* and is pairwise distinct from index K on
PairFrames(n, p, K) ==
    [i \in 1..n |-> IF i - 1 < K THEN 1 + ((i - 1) % p) ELSE p + i]

PairCounts == (0..MaxPairN) \cup (UInt8Modulus..(UInt8Modulus + MaxPairN))

PairInputs ==
    {PairFrames(n, p, K) :
        n \in PairCounts, p \in 1..MaxPairSeq, K \in {0, UInt8Modulus, 2 * UInt8Modulus}}

\* what a slot of np.empty may hold before it is written: zeros, or stale
\* memory that happens to match what the assertions compare with
UninitPairs(image_sequence) ==
    {<<a, b>> :
        a \in {0} \cup {image_sequence[i] : i \in {1} \cap DOMAIN image_sequence},
        b \in {0} \cup {image_sequence[i] : i \in {2} \cap DOMAIN image_sequence}}

\* stacked_indices: a uint8 array filled from batch_indices and batch_indices + 1
StackedIndices(sequence_length, idx) ==
    LET batch_indices == [k \in 1..(sequence_length - 1) |-> (k - 1) + idx]
    IN  [q \in 1..((sequence_length - 1) * 2) |->
            IF q % 2 = 1
            THEN batch_indices[(q + 1) \div 2] % UInt8Modulus
            ELSE (batch_indices[q \div 2] + 1) % UInt8Modulus]

\* ret after the two slice assignments; slot sequence_length - 1 is never written
FillRet(stacked, sequence_length, uninit) ==
    [k \in 1..sequence_length |->
        IF k <= sequence_length - 1
        THEN <<stacked[2 * (k - 1) + 1], stacked[2 * (k - 1) + 2]>>
        ELSE uninit]

\* the two assert statements
Asserts(image_sequence, ret) ==
    IF ret[1][1] # image_sequence[1] THEN "AssertionError"
    ELSE IF Len(image_sequence) < 2 THEN "IndexError"
    ELSE IF ret[1][2] # image_sequence[2] THEN "AssertionError"
    ELSE ""

\* one pass through the loop body for chunk start idx
PairsBody(g, idx, uninit) ==
    LET si == StackedIndices(g.sequence_length, idx)
    IN  IF ~InRange(g.image_sequence, si)
        THEN [err |-> "IndexError"]
        ELSE LET ret == FillRet(Take(g.image_sequence, si), g.sequence_length, uninit)
             IN  [err |-> Asserts(g.image_sequence, ret), ret |-> ret]

PairsLive == gen.called /\ gen.status \in {"created", "suspended"}

image_pairs ==
    /\ ~gen.called
    /\ \E image_sequence \in PairInputs, sequence_length \in 1..MaxPairSeq :
         gen' = [called |-> TRUE, image_sequence |-> image_sequence,
                 sequence_length |-> sequence_length,
                 status |-> "created", err |-> "", idx |-> 0, at |-> 0,
                 count |-> 0, ret |-> <<>>]
    /\ UNCHANGED <<dm, stacks, diffs, iters, last>>

\* next(): range(0, N, sequence_length) is exhausted
PairsStop ==
    /\ PairsLive
    /\ gen.idx >= Len(gen.image_sequence)
    /\ gen' = [gen EXCEPT !.status = "done"]
    /\ UNCHANGED <<dm, stacks, diffs, iters, last>>

\* next(): the loop body raises
PairsRaise ==
    /\ PairsLive
    /\ gen.idx < Len(gen.image_sequence)
    /\ \E uninit \in UninitPairs(gen.image_sequence) :
         LET r == PairsBody(gen, gen.idx, uninit)
         IN  /\ r.err # ""
             /\ gen' = [gen EXCEPT !.status = "raised", !.err = r.err, !.at = gen.idx]
    /\ UNCHANGED <<dm, stacks, diffs, iters, last>>

\* next(): the loop body runs to "yield ret"
PairsYield ==
    /\ PairsLive
    /\ gen.idx < Len(gen.image_sequence)
    /\ \E uninit \in UninitPairs(gen.image_sequence) :
         LET r == PairsBody(gen, gen.idx, uninit)
         IN  /\ r.err = ""
             /\ gen' = [gen EXCEPT !.status = "suspended", !.at = gen.idx,
                                   !.idx = gen.idx + gen.sequence_length,
                                   !.count = @ + 1, !.ret = r.ret]
    /\ UNCHANGED <<dm, stacks, diffs, iters, last>>

NextPairs ==
    \/ image_pairs
    \/ PairsStop
    \/ PairsRaise
    \/ PairsYield

SpecPairs == Init /\ [][NextPairs]_vars

(***************************************************************************)
(* Properties of DataManager (specification Spec)                          *)
(***************************************************************************)
Calls == 1..Len(iters)
Finished(c) == iters[c].status \in {"done", "raised"}
AllYields == UNION {Range(iters[c].hist) : c \in Calls}

\* frame count equals pose count
Matched == Len(dm.poses.rows) = dm.N

\* every step of generator c so far has read the pose array now stored
CurrentPoses(c) == iters[c].seen \subseteq {dm.poses}

Window == dm.batch_size + dm.seq_len - 1
WindowOf(j) == ((j - 1) * Window)..((j - 1) * Window + Window - 1)

\* C1 (as claimed): on matched data a complete pass never raises, yields
\* exactly floor(N / (batch_size + seq_len - 1)) batches, and every yielded
\* batch holds batch_size stacked examples and batch_size pose deltas.
C1_Original ==
    dm.constructed /\ Matched =>
        \A c \in Calls :
            /\ iters[c].status # "raised"
            /\ iters[c].status = "done" => Len(iters[c].hist) = dm.N \div Window
            /\ \A j \in 1..Len(iters[c].hist) :
                 /\ Len(iters[c].hist[j].stackAtYield) = dm.batch_size
                 /\ Len(iters[c].hist[j].diffAtYield) = dm.batch_size

\* C2: the j-th batch of a pass is yielded at offset b = (j - 1) * W, and in
\* it channel block [C*idx, C*(idx+1)) of example e equals input frame
\* b + e + idx, for every e in [0, batch_size) and idx in [0, seq_len).
C2_StackContents ==
    \A c \in Calls : \A j \in 1..Len(iters[c].hist) :
        LET y == iters[c].hist[j]
        IN  /\ y.b = (j - 1) * Window
            /\ Len(y.stackAtYield) = dm.batch_size
            /\ \A e \in 0..(dm.batch_size - 1) :
                 /\ Len(y.stackAtYield[e + 1]) = dm.C * dm.seq_len
                 /\ \A idx \in 0..(dm.seq_len - 1) :
                      /\ y.b + e + idx < dm.N
                      /\ \A ch \in 1..dm.C :
                           y.stackAtYield[e + 1][dm.C * idx + ch]
                               = dm.images[y.b + e + idx + 1][ch]

\* C2 witness: a batch at a non-zero offset, whose examples stack several
\* multi-channel frames, has been yielded.
C2_Witness ==
    \E y \in AllYields : y.b > 0 /\ dm.seq_len >= 2 /\ dm.C >= 2

\* C3 (as claimed): for every seq_len >= 1 the delta batch of a yielded batch
\* has batch_size rows and row e is pose[b + e + seq_len - 1] - pose[b + e].
C3_Original ==
    dm.constructed /\ Matched =>
        \A c \in Calls : CurrentPoses(c) =>
            \A j \in 1..Len(iters[c].hist) :
                LET y == iters[c].hist[j]
                IN  /\ Len(y.diffAtYield) = dm.batch_size
                    /\ \A e \in 0..(dm.batch_size - 1) :
                         y.diffAtYield[e + 1]
                             = dm.poses.rows[y.b + e + dm.seq_len - 1 + 1]
                               - dm.poses.rows[y.b + e + 1]

\* C4 (as claimed): no DataManager instance exists whose frame count differs
\* from its pose count, so no batch is yielded from mismatched data.
C4_Original ==
    dm.constructed => Matched

\* C5: one stacked-image buffer exists per instance; every stack ever yielded
\* is that buffer and now holds what the most recent step wrote, whereas
\* every yielded pose-delta array is an array of its own that still holds
\* the value it was yielded with.
C5_BufferAliasing ==
    /\ dm.constructed => DOMAIN stacks = {dm.image_stack_batch}
    /\ \A y \in AllYields :
         /\ y.stack = dm.image_stack_batch
         /\ stacks[y.stack] = last.stackAtYield
         /\ diffs[y.diff] = y.diffAtYield
    /\ \A y1, y2 \in AllYields :
         <<y1.call, y1.b>> # <<y2.call, y2.b>> => y1.diff # y2.diff

\* C5 witness: a batch yielded by one generator has been overwritten by a
\* step of another generator on the same instance.
C5_Witness ==
    \E y \in AllYields :
        /\ y.call # last.call
        /\ y.stackAtYield # last.stackAtYield
        /\ stacks[y.stack] = last.stackAtYield

\* C9 (as claimed): batch number j reads exactly the frame indices and the
\* pose indices of its window [jW, jW + W - 1], inside [0, N).
C9_Original ==
    \A c \in Calls : \A j \in 1..Len(iters[c].hist) :
        LET y == iters[c].hist[j]
        IN  /\ y.frameReads = WindowOf(j)
            /\ y.poseReads = WindowOf(j)
            /\ WindowOf(j) \subseteq 0..(dm.N - 1)

\* C9 (amended): batch number j is yielded at offset jW and reads exactly the
\* frame indices of its window [jW, jW + W - 1], all inside [0, N), and pose
\* indices only inside that window (its last index among them); no frame
\* index is read by two batches of a pass, and example e of a batch starts
\* at frame jW + e.
C9_Stepping ==
    \A c \in Calls : \A j \in 1..Len(iters[c].hist) :
        LET y == iters[c].hist[j]
        IN  /\ y.b = (j - 1) * Window
            /\ y.frameReads = WindowOf(j)
            /\ WindowOf(j) \subseteq 0..(dm.N - 1)
            /\ y.poseReads \subseteq WindowOf(j)
            /\ (y.b + Window - 1) \in y.poseReads
            /\ \A k \in 1..Len(iters[c].hist) :
                 k # j => y.frameReads \cap iters[c].hist[k].frameReads = {}
            /\ \A e \in 0..(dm.batch_size - 1) : \A ch \in 1..dm.C :
                 y.stackAtYield[e + 1][ch] = dm.images[y.b + e + 1][ch]

\* C9 witness: a pass has yielded two consecutive batches of multi-frame
\* examples.
C9_Witness ==
    \E c \in Calls : Len(iters[c].hist) >= 2 /\ dm.seq_len >= 2

\* what a generator has handed out so far: offsets, stack contents at yield
\* time and pose deltas
Output(c) ==
    [j \in 1..Len(iters[c].hist) |->
        <<iters[c].hist[j].b, iters[c].hist[j].stackAtYield,
          iters[c].hist[j].diffAtYield>>]

IsPrefix(s, t) == Len(s) <= Len(t) /\ \A k \in 1..Len(s) : s[k] = t[k]

SamePoses(c1, c2) == Cardinality(iters[c1].seen \cup iters[c2].seen) <= 1

\* C10, state part: every call starts at offset 0, and two calls that read
\* the same pose array produce the same sequence: each output is a prefix of
\* the other's, and two finished calls end alike with equal outputs.
C10_SameSequence ==
    \A c1, c2 \in Calls :
        /\ Len(iters[c1].hist) >= 1 => iters[c1].hist[1].b = 0
        /\ SamePoses(c1, c2) =>
             /\ IsPrefix(Output(c1), Output(c2)) \/ IsPrefix(Output(c2), Output(c1))
             /\ Finished(c1) /\ Finished(c2) =>
                  /\ iters[c1].status = iters[c2].status
                  /\ iters[c1].err = iters[c2].err
                  /\ Output(c1) = Output(c2)

\* C10, step part: a step that changes a generator leaves the instance as it
\* is, and a step that changes the instance changes its pose array alone.
C10_InstanceKept ==
    dm.constructed =>
        /\ iters' # iters => dm' = dm
        /\ dm' # dm => dm' = [dm EXCEPT !.poses = dm'.poses]

\* C10: batches() is restartable by re-invocation: each call starts at offset
\* 0 and yields the same sequence of stack contents and pose deltas as any
\* other call, whatever earlier generators did; iterating never changes the
\* stored frames, poses, batch_size, seq_len or base index vector.
C10_Restartable == []C10_SameSequence /\ [][C10_InstanceKept]_vars

\* C10 witness: two calls on one instance have both run to completion with
\* several batches of multi-frame examples each.
C10_Witness ==
    \E c1, c2 \in Calls :
        /\ c1 # c2
        /\ iters[c1].status = "done" /\ iters[c2].status = "done"
        /\ Len(iters[c1].hist) >= 2
        /\ Output(c1) = Output(c2)
        /\ dm.seq_len >= 2

(***************************************************************************)
(* Properties of image_pairs (specification SpecPairs)                     *)
(***************************************************************************)
PairN == Len(gen.image_sequence)

\* C6 (as claimed): for N >= 2 * sequence_length the generator never raises,
\* every yielded chunk has sequence_length elements, and a fully consumed
\* generator has yielded exactly floor(N / sequence_length) chunks.  Stated
\* for sequence_length >= 2, where the first element of a chunk, which the
\* assertions read, is a slot the code writes.
C6_Original ==
    gen.called /\ gen.sequence_length >= 2 /\ PairN >= 2 * gen.sequence_length =>
        /\ gen.status # "raised"
        /\ gen.count > 0 => Len(gen.ret) = gen.sequence_length
        /\ gen.status = "done" => gen.count = PairN \div gen.sequence_length

\* C7 (as claimed): element 0 of the chunk yielded for chunk start idx holds
\* input frame idx in its first channels and input frame idx + 1 in its
\* last, also beyond 256 frames.  Stated for sequence_length >= 2, where
\* element 0 is a slot the code writes, and for the chunk starts whose frame
\* idx + 1 exists.
C7_Original ==
    gen.called /\ gen.status = "suspended" /\ gen.sequence_length >= 2
               /\ gen.at + 1 < PairN =>
        gen.ret[1] = <<gen.image_sequence[gen.at + 1], gen.image_sequence[gen.at + 2]>>

\* C8 (as claimed): every element k of the chunk yielded for chunk start idx
\* holds input frame idx + k in its first channels and input frame
\* idx + k + 1 in its last, for all k in [0, sequence_length) (stated for the
\* elements whose frame idx + k + 1 exists).
C8_Original ==
    gen.called /\ gen.status = "suspended" =>
        \A k \in 0..(gen.sequence_length - 1) :
            gen.at + k + 1 < PairN =>
                gen.ret[k + 1] = <<gen.image_sequence[gen.at + k + 1],
                                   gen.image_sequence[gen.at + k + 2]>>

====
